---- MODULE Spec2Model ----
(***************************************************************************)
(* A model of the exec crate (src/src/lib.rs): the execvp wrapper, which   *)
(* marshals a program name and an argument sequence into NUL-terminated    *)
(* buffers and a NULL-terminated pointer array, calls the C library's      *)
(* execvp / wexecvp, and classifies the outcome; and the Command builder.  *)
(*                                                                         *)
(* One call of execvp is modelled statement by statement (pc), over an     *)
(* explicit heap, so that the order of validation, the lifetime of the     *)
(* buffers and the moment errno is read are all visible in the state.      *)
(***************************************************************************)
EXTENDS Integers, Sequences, FiniteSets, TLC

\* ------------------------------------------------------------------ bounds
MaxStrLen == 2    \* longest host string
MaxArgs == 2      \* most arguments of one call / most appends to a builder

\* ------------------------------------------------------- values and errors
\* The codes the primitive may leave in errno when it fails (ENOENT,
\* EACCES), and the one a failing allocator call leaves (ENOMEM).
ErrnoCodes == {2, 13}
AllocatorErrno == {12}

\* The values the primitive may return when it returns at all.  The C
\* contract says -1 only; the others let the defensive branch be reached.
OsResults == {-2, -1, 0, 1}

Platforms == {"unix", "windows"}

\* enum Error { NullByteInArgument, Errno(Errno) }; NoError: nothing yet.
NoError == [kind |-> "none", code |-> 0]
NullByteInArgument == [kind |-> "NullByteInArgument", code |-> 0]
ErrnoError(e) == [kind |-> "Errno", code |-> e]

\* The builder before Command::new and after it went out of scope.
NoCommand == [live |-> FALSE, argv |-> <<>>]

\* ptr::null()
NULL == 0

\* ---------------------------------------------------------- input domains
\* The units of a host string: bytes on unix; code points on windows, one
\* of them (U+10000) outside the BMP.
HostChars(pf) == IF pf = "unix" THEN {0, 1} ELSE {0, 65536}

SeqsUpTo(S, n) == UNION {[1..k -> S] : k \in 0..n}

HostStrings(pf) == SeqsUpTo(HostChars(pf), MaxStrLen)

\* -------------------------------------------------------- pure functions
\* OsStrExt::encode_wide: one u16 unit per BMP code point, a surrogate pair
\* for a supplementary one.
RECURSIVE EncodeWide(_)
EncodeWide(s) ==
  IF s = <<>> THEN <<>>
  ELSE LET c == Head(s)
           units == IF c >= 65536
                    THEN <<55296 + ((c - 65536) \div 1024),
                           56320 + ((c - 65536) % 1024)>>
                    ELSE <<c>>
       IN units \o EncodeWide(Tail(s))

\* The units handed to the encoder: as_bytes() on unix (the bytes of the
\* OsStr themselves), encode_wide() on windows.
NativeUnits(pf, s) == IF pf = "unix" THEN s ELSE EncodeWide(s)

HasZero(units) == \E i \in 1..Len(units) : units[i] = 0

\* A conversion that appends the terminator without looking for a zero
\* inside (C would then see the string cut short).
CStringNewUnchecked(bytes) == [ok |-> TRUE, buf |-> Append(bytes, 0)]

\* CString::new(bytes).map_err(|_| Error::NullByteInArgument)
CStringNew(bytes) ==
  IF HasZero(bytes)
  THEN [ok |-> FALSE, buf |-> <<>>]
  ELSE [ok |-> TRUE, buf |-> Append(bytes, 0)]

\* The closure with the terminator pushed before the check, which then
\* finds it and rejects every string.
wcstringPushFirst(units) ==
  IF \E i \in 1..Len(Append(units, 0)) : Append(units, 0)[i] = 0
  THEN [ok |-> FALSE, buf |-> <<>>]
  ELSE [ok |-> TRUE, buf |-> Append(units, 0)]

\* The windows closure: collect encode_wide, reject any zero, push(0).
wcstring(units) ==
  IF \E i \in 1..Len(units) : units[i] = 0
  THEN [ok |-> FALSE, buf |-> <<>>]
  ELSE [ok |-> TRUE, buf |-> Append(units, 0)]

\* The per-string conversion of the build's platform.
Marshal(pf, s) ==
  IF pf = "unix" THEN CStringNew(NativeUnits(pf, s))
  ELSE wcstring(NativeUnits(pf, s))

\* The test written as `res != 0`.
IsFailureNonZero(r) == r # 0

\* `if res < 0`
IsFailure(r) == r < 0

\* ------------------------------------------------------------------- heap
\* The heap maps every address handed out during the call to its block:
\* whether it is still allocated, and its contents.  An address is not
\* handed out twice within one call, so a pointer to a released block is
\* recognisable as such.
Alloc(h) == Cardinality(DOMAIN h) + 1

Store(h, a, content) ==
  [x \in (DOMAIN h) \cup {a} |->
     IF x = a THEN [live |-> TRUE, data |-> content] ELSE h[x]]

Free(h, addrs) ==
  [x \in DOMAIN h |-> IF x \in addrs THEN [h[x] EXCEPT !.live = FALSE]
                                      ELSE h[x]]

Live(h) == {a \in DOMAIN h : h[a].live}

EmptyHeap == [x \in {} |-> [live |-> FALSE, data |-> <<>>]]

Range(s) == {s[i] : i \in 1..Len(s)}

\* ------------------------------------------------------------------ state
VARIABLES
  platform,         \* cfg(unix) or cfg(windows): fixed for a behaviour
  cmd,              \* the Command builder: [live, argv]
  new_program,      \* ghost: the value given to Command::new
  appended,         \* ghost: the values given to arg/args, in call order
  handed,           \* ghost: how often exec handed this builder's list
                    \* to execvp: "never", "once" or "again"
  pc,               \* position inside execvp_impl
  via,              \* who called execvp: "execvp" (directly) or "Command"
  program,          \* parameter program
  args,             \* parameter args (the items the iterator will yield)
  fetched,          \* items pulled from the args iterator so far
  validated,        \* ghost: the strings converted so far, in order
  program_cstring,  \* address of the encoded program name, or NULL
  arg_cstrings,     \* addresses of the encoded arguments
  arg_charptrs,     \* address of the pointer array, or NULL
  heap,             \* live allocations
  os_calls,         \* ghost: invocations of the primitive in this call
  os_file,          \* first parameter the primitive received
  os_argv,          \* second parameter the primitive received
  os_errno,         \* the thread's errno
  left_errno,       \* ghost: errno as the primitive left it on return
  res,              \* value the primitive returned
  result            \* the Error execvp yields

builder == <<cmd, new_program, appended, handed>>
frame == <<pc, via, program, args, fetched, validated, program_cstring,
           arg_cstrings, arg_charptrs, heap, os_calls, os_file, os_argv,
           left_errno, res, result>>
vars == <<platform, cmd, new_program, appended, handed, pc, via, program,
          args, fetched, validated, program_cstring, arg_cstrings,
          arg_charptrs, heap, os_calls, os_file, os_argv, os_errno,
          left_errno, res, result>>

\* The frame of a call that has not started.
FrameIdle ==
  /\ pc = "idle"
  /\ via = "none"
  /\ program = <<>>
  /\ args = <<>>
  /\ fetched = 0
  /\ validated = <<>>
  /\ program_cstring = NULL
  /\ arg_cstrings = <<>>
  /\ arg_charptrs = NULL
  /\ heap = EmptyHeap
  /\ os_calls = 0
  /\ os_file = NULL
  /\ os_argv = NULL
  /\ left_errno = 0
  /\ res = 0
  /\ result = NoError

Init ==
  /\ platform \in Platforms
  /\ cmd = NoCommand
  /\ new_program = <<>>
  /\ appended = <<>>
  /\ handed = "never"
  /\ os_errno = 0
  /\ FrameIdle

\* ---------------------------------------------------------------- builder
\* impl Command: the list after each method.
NewArgv(p) == <<p>>

\* The value inserted at the front instead of pushed at the back.
ArgPushFront(argv, a) == <<a>> \o argv

\* arg(): `self.argv.push(arg.as_ref().to_owned())`
ArgPush(argv, a) == Append(argv, a)

\* The loop run over the slice from its last element to its first.
RECURSIVE ArgsLoopReversed(_, _)
ArgsLoopReversed(argv, vs) ==
  IF vs = <<>> THEN argv
  ELSE ArgsLoopReversed(ArgPush(argv, vs[Len(vs)]), SubSeq(vs, 1, Len(vs) - 1))

\* args(): `for arg in args { self.arg(arg) }`
RECURSIVE ArgsLoop(_, _)
ArgsLoop(argv, vs) ==
  IF vs = <<>> THEN argv
  ELSE ArgsLoop(ArgPush(argv, Head(vs)), Tail(vs))

\* The argument vector without the program name at position 0.
ExecArgsWithoutProgram(argv) == Tail(argv)

\* exec(): the two parameters of `execvp(&self.argv[0], &self.argv)`
ExecProgram(argv) == argv[1]
ExecArgs(argv) == argv

\* Command::new(p)
CommandNew ==
  /\ pc = "idle"
  /\ ~cmd.live
  /\ \E p \in HostStrings(platform) :
       /\ cmd' = [live |-> TRUE, argv |-> NewArgv(p)]
       /\ new_program' = p
  /\ appended' = <<>>
  /\ handed' = "never"
  /\ UNCHANGED <<platform, os_errno, frame>>

\* cmd.arg(a)
CommandArg ==
  /\ pc = "idle"
  /\ cmd.live
  /\ Len(appended) < MaxArgs
  /\ \E a \in HostStrings(platform) :
       /\ cmd' = [cmd EXCEPT !.argv = ArgPush(cmd.argv, a)]
       /\ appended' = Append(appended, a)
  /\ UNCHANGED <<platform, new_program, handed, os_errno, frame>>

\* cmd.args(vs)
CommandArgs ==
  /\ pc = "idle"
  /\ cmd.live
  /\ \E vs \in SeqsUpTo(HostStrings(platform), MaxArgs - Len(appended)) :
       /\ cmd' = [cmd EXCEPT !.argv = ArgsLoop(cmd.argv, vs)]
       /\ appended' = appended \o vs
  /\ UNCHANGED <<platform, new_program, handed, os_errno, frame>>

\* Entry of execvp_impl with its parameters bound.
Enter(caller, p, as) ==
  /\ pc' = "program"
  /\ via' = caller
  /\ program' = p
  /\ args' = as
  /\ UNCHANGED <<fetched, validated, program_cstring, arg_cstrings,
                 arg_charptrs, heap, os_calls, os_file, os_argv,
                 left_errno, res, result>>

CommandExec ==
  /\ pc = "idle"
  /\ cmd.live
  /\ handed' = IF handed = "never" THEN "once" ELSE "again"
  /\ Enter("Command", ExecProgram(cmd.argv), ExecArgs(cmd.argv))
  /\ UNCHANGED <<platform, cmd, new_program, appended, os_errno>>

\* The builder goes out of scope.
CommandDrop ==
  /\ pc = "idle"
  /\ cmd.live
  /\ cmd' = NoCommand
  /\ new_program' = <<>>
  /\ appended' = <<>>
  /\ handed' = "never"
  /\ UNCHANGED <<platform, os_errno, frame>>

\* ----------------------------------------------------------------- execvp
\* A direct call execvp(program, args).
Execvp ==
  /\ pc = "idle"
  /\ ~cmd.live
  /\ \E p \in HostStrings(platform),
        as \in SeqsUpTo(HostStrings(platform), MaxArgs) :
       Enter("execvp", p, as)
  /\ UNCHANGED <<platform, builder, os_errno>>

\* let program_cstring = exec_try!(CString::new(program ...))
ConvertProgram ==
  /\ pc = "program"
  /\ LET m == Marshal(platform, program) IN
       /\ validated' = Append(validated, program)
       /\ IF m.ok
          THEN LET a == Alloc(heap) IN
                 /\ heap' = Store(heap, a, m.buf)
                 /\ program_cstring' = a
                 /\ pc' = "args"
                 /\ UNCHANGED result
          ELSE /\ result' = NullByteInArgument
               /\ pc' = "drop"
               /\ UNCHANGED <<heap, program_cstring>>
  /\ UNCHANGED <<platform, builder, os_errno, via, program, args, fetched,
                 arg_cstrings, arg_charptrs, os_calls, os_file, os_argv,
                 left_errno, res>>

\* The collection without the short circuit: every item is pulled and
\* converted, and a failure is only acted on once the iterator is exhausted.
CollectArgEager ==
  /\ pc = "args"
  /\ IF fetched < Len(args)
     THEN LET arg == args[fetched + 1]
              m == Marshal(platform, arg) IN
            /\ fetched' = fetched + 1
            /\ validated' = Append(validated, arg)
            /\ IF m.ok
               THEN LET a == Alloc(heap) IN
                      /\ heap' = Store(heap, a, m.buf)
                      /\ arg_cstrings' = Append(arg_cstrings, a)
                      /\ UNCHANGED <<pc, result>>
               ELSE /\ result' = NullByteInArgument
                    /\ UNCHANGED <<pc, heap, arg_cstrings>>
     ELSE /\ pc' = IF result = NullByteInArgument THEN "drop" ELSE "ptrs"
          /\ UNCHANGED <<fetched, validated, heap, arg_cstrings, result>>
  /\ UNCHANGED <<platform, builder, os_errno, via, program, args,
                 program_cstring, arg_charptrs, os_calls, os_file, os_argv,
                 left_errno, res>>

\* One turn of `.map(...).collect::<Result<Vec<_>, _>>()`: pull the next
\* item, convert it, push it or stop at the first Err; when the iterator is
\* exhausted the vector is complete.
CollectArg ==
  /\ pc = "args"
  /\ IF fetched < Len(args)
     THEN LET arg == args[fetched + 1]
              m == Marshal(platform, arg) IN
            /\ fetched' = fetched + 1
            /\ validated' = Append(validated, arg)
            /\ IF m.ok
               THEN LET a == Alloc(heap) IN
                      /\ heap' = Store(heap, a, m.buf)
                      /\ arg_cstrings' = Append(arg_cstrings, a)
                      /\ UNCHANGED <<pc, result>>
               ELSE /\ result' = NullByteInArgument
                    /\ pc' = "drop"
                    /\ UNCHANGED <<heap, arg_cstrings>>
     ELSE /\ pc' = "ptrs"
          /\ UNCHANGED <<fetched, validated, heap, arg_cstrings, result>>
  /\ UNCHANGED <<platform, builder, os_errno, via, program, args,
                 program_cstring, arg_charptrs, os_calls, os_file, os_argv,
                 left_errno, res>>

\* The pointers taken with into_iter() instead of iter(): each CString is
\* moved into the closure and released as soon as its address is taken.
CollectPtrsIntoIter ==
  /\ pc = "ptrs"
  /\ LET a == Alloc(heap) IN
       /\ heap' = Free(Store(heap, a, arg_cstrings), Range(arg_cstrings))
       /\ arg_charptrs' = a
  /\ arg_cstrings' = <<>>
  /\ pc' = "sentinel"
  /\ UNCHANGED <<platform, builder, os_errno, via, program, args, fetched,
                 validated, program_cstring, os_calls,
                 os_file, os_argv, left_errno, res, result>>

\* let mut arg_charptrs: Vec<_> = arg_cstrings.iter().map(as_ptr).collect();
CollectPtrs ==
  /\ pc = "ptrs"
  /\ LET a == Alloc(heap) IN
       /\ heap' = Store(heap, a, arg_cstrings)
       /\ arg_charptrs' = a
  /\ pc' = "sentinel"
  /\ UNCHANGED <<platform, builder, os_errno, via, program, args, fetched,
                 validated, program_cstring, arg_cstrings, os_calls,
                 os_file, os_argv, left_errno, res, result>>

\* The statement left out: the array goes to the primitive unterminated.
PushNullMissing ==
  /\ pc = "sentinel"
  /\ pc' = "call"
  /\ UNCHANGED <<platform, builder, os_errno, via, program, args, fetched,
                 validated, program_cstring, arg_cstrings, arg_charptrs, heap,
                 os_calls, os_file, os_argv, left_errno, res, result>>

\* arg_charptrs.push(ptr::null());
PushNull ==
  /\ pc = "sentinel"
  /\ heap' = [heap EXCEPT ![arg_charptrs].data = Append(@, NULL)]
  /\ pc' = "call"
  /\ UNCHANGED <<platform, builder, os_errno, via, program, args, fetched,
                 validated, program_cstring, arg_cstrings, arg_charptrs,
                 os_calls, os_file, os_argv, left_errno, res, result>>

\* unsafe { libc::execvp(program_cstring.as_ptr(), arg_charptrs.as_ptr()) }
CallPrimitive ==
  /\ pc = "call"
  /\ os_calls' = os_calls + 1
  /\ os_file' = program_cstring
  /\ os_argv' = arg_charptrs
  /\ pc' = "in_os"
  /\ UNCHANGED <<platform, builder, os_errno, via, program, args, fetched,
                 validated, program_cstring, arg_cstrings, arg_charptrs,
                 heap, left_errno, res, result>>

\* The primitive succeeds: the process image is replaced, nothing returns.
OsReplace ==
  /\ pc = "in_os"
  /\ pc' = "replaced"
  /\ UNCHANGED <<platform, builder, os_errno, via, program, args, fetched,
                 validated, program_cstring, arg_cstrings, arg_charptrs,
                 heap, os_calls, os_file, os_argv, left_errno, res, result>>

\* The primitive returns r; a failure leaves its code e in errno.
OsReturn ==
  /\ pc = "in_os"
  /\ \E r \in OsResults :
       /\ res' = r
       /\ os_errno' \in IF r < 0 THEN ErrnoCodes ELSE {os_errno}
  /\ left_errno' = os_errno'
  /\ pc' = "os_returned"
  /\ UNCHANGED <<platform, builder, via, program, args, fetched, validated,
                 program_cstring, arg_cstrings, arg_charptrs, heap,
                 os_calls, os_file, os_argv, result>>

\* The buffers released first and errno read afterwards.
ClassifyAfterRelease ==
  /\ pc = "os_returned"
  /\ IF IsFailure(res)
     THEN /\ heap' = Free(heap, Live(heap))
          /\ program_cstring' = NULL
          /\ arg_cstrings' = <<>>
          /\ arg_charptrs' = NULL
          /\ os_errno' \in {os_errno} \cup AllocatorErrno
          /\ result' = ErrnoError(os_errno')
          /\ pc' = "drop"
     ELSE /\ pc' = "unwind"
          /\ UNCHANGED <<result, heap, program_cstring, arg_cstrings,
                         arg_charptrs, os_errno>>
  /\ UNCHANGED <<platform, builder, via, program, args, fetched,
                 validated, os_calls, os_file, os_argv, left_errno, res>>

\* if res < 0 { Error::Errno(errno()) } else { panic!(...) }
Classify ==
  /\ pc = "os_returned"
  /\ IF IsFailure(res)
     THEN /\ result' = ErrnoError(os_errno)
          /\ pc' = "drop"
     ELSE /\ pc' = "unwind"
          /\ UNCHANGED result
  /\ UNCHANGED <<platform, builder, os_errno, via, program, args, fetched,
                 validated, program_cstring, arg_cstrings, arg_charptrs,
                 heap, os_calls, os_file, os_argv, left_errno, res>>

\* Scope exit, by return or by unwinding: arg_charptrs, arg_cstrings and
\* program_cstring are released.  Releasing memory may overwrite errno.
Drop ==
  /\ pc \in {"drop", "unwind"}
  /\ heap' = Free(heap, Live(heap))
  /\ program_cstring' = NULL
  /\ arg_cstrings' = <<>>
  /\ arg_charptrs' = NULL
  /\ os_errno' \in IF Live(heap) # {}
                   THEN {os_errno} \cup AllocatorErrno ELSE {os_errno}
  /\ pc' = IF pc = "drop" THEN "returned" ELSE "panicked"
  /\ UNCHANGED <<platform, builder, via, program, args, fetched, validated,
                 os_calls, os_file, os_argv, left_errno, res, result>>

\* The caller has the Error and goes on; the frame is gone.  errno is
\* taken as 0 at the next call: nothing reads it before the primitive has
\* returned, and a failing primitive overwrites it.
Resume ==
  /\ pc = "returned"
  /\ pc' = "idle"
  /\ via' = "none"
  /\ program' = <<>>
  /\ args' = <<>>
  /\ fetched' = 0
  /\ validated' = <<>>
  /\ os_calls' = 0
  /\ os_file' = NULL
  /\ os_argv' = NULL
  /\ left_errno' = 0
  /\ res' = 0
  /\ result' = NoError
  /\ os_errno' = 0
  /\ heap' = EmptyHeap
  /\ UNCHANGED <<platform, builder, program_cstring, arg_cstrings,
                 arg_charptrs>>

Next ==
  \/ CommandNew
  \/ CommandArg
  \/ CommandArgs
  \/ CommandExec
  \/ CommandDrop
  \/ Execvp
  \/ ConvertProgram
  \/ CollectArg
  \/ CollectPtrs
  \/ PushNull
  \/ CallPrimitive
  \/ OsReplace
  \/ OsReturn
  \/ Classify
  \/ Drop
  \/ Resume

Spec == Init /\ [][Next]_vars

\* ----------------------------------------------------------------- claims
\* A host string with a zero byte / code unit in its content.
StringHasNul(s) == \E i \in 1..Len(s) : s[i] = 0

\* The call in progress was given a zero in the program name or in at
\* least one argument.
InputHasNul ==
  StringHasNul(program) \/ \E i \in 1..Len(args) : StringHasNul(args[i])

InCall == pc # "idle"

\* C1: a call whose program name or whose arguments contain a zero
\* byte / code unit never reaches the OS primitive (it is invoked zero
\* times, the call is never replaced or panicking) and, once it has
\* returned, its value is Error::NullByteInArgument.
C1_NulRejectedBeforeOsCall ==
  (InCall /\ InputHasNul) =>
    /\ os_calls = 0
    /\ pc \in {"program", "args", "drop", "returned"}
    /\ result \in {NoError, NullByteInArgument}
    /\ pc \in {"drop", "returned"} => result = NullByteInArgument

\* The scenario ["ok", "bad\0arg"]: a clean program name and first
\* argument, a zero inside the second argument, and the call has returned.
C1_Witness ==
  /\ pc = "returned"
  /\ Len(args) = 2
  /\ ~StringHasNul(program)
  /\ ~StringHasNul(args[1])
  /\ StringHasNul(args[2])
  /\ Len(args[2]) = 2
  /\ result = NullByteInArgument

\* C2: a call in which neither the program name nor any argument holds a
\* zero never yields NullByteInArgument; when it has ended (returned,
\* replaced or panicking) the primitive was invoked exactly once; and when
\* it has returned, the value is Error::Errno carrying the code the
\* primitive left, after a negative result.
C2_CleanInputReachesOs ==
  (InCall /\ ~InputHasNul) =>
    /\ result # NullByteInArgument
    /\ pc \in {"drop", "unwind", "returned", "replaced", "panicked"}
         => os_calls = 1
    /\ pc = "returned" =>
         /\ result.kind = "Errno"
         /\ result.code = left_errno
         /\ result.code \in ErrnoCodes
         /\ res < 0

\* A clean call with two arguments that came back with an OS error.
C2_Witness ==
  /\ pc = "returned"
  /\ ~InputHasNul
  /\ Len(args) = 2
  /\ program # <<>>
  /\ result.kind = "Errno"

\* The strings of a call in the documented order of validation.
AllStrings == <<program>> \o args

IsPrefix(s, u) == Len(s) <= Len(u) /\ \A i \in 1..Len(s) : s[i] = u[i]

\* C3: the strings converted so far are a prefix of <<program>> \o args
\* (program first, then the arguments in order), exactly as many items were
\* pulled from the argument iterator as arguments were converted, no
\* string before the last converted one holds a zero, and when the call
\* fails with NullByteInArgument the last string converted is the first
\* offender: with a bad program name no argument is ever pulled, and
\* nothing after the first bad argument is.
C3_ValidationStopsAtFirstOffender ==
  InCall =>
    /\ IsPrefix(validated, AllStrings)
    /\ fetched = IF validated = <<>> THEN 0 ELSE Len(validated) - 1
    /\ \A i \in 1..(Len(validated) - 1) : ~StringHasNul(validated[i])
    /\ result = NullByteInArgument =>
         /\ validated # <<>>
         /\ StringHasNul(validated[Len(validated)])
    /\ (result = NullByteInArgument /\ StringHasNul(program)) =>
         (fetched = 0 /\ validated = <<program>>)

\* Both arguments hold a zero; the call returned after pulling only the
\* first of them.
C3_Witness ==
  /\ pc = "returned"
  /\ Len(args) = 2
  /\ ~StringHasNul(program)
  /\ StringHasNul(args[1])
  /\ StringHasNul(args[2])
  /\ fetched = 1
  /\ validated = <<program, args[1]>>

\* C4: while the primitive runs on N arguments, the pointer array it was
\* given has N+1 entries; entry k addresses a live buffer holding the
\* native units of the k-th argument followed by one terminator, in input
\* order; entry N+1 is the null sentinel (alone when N = 0).
C4_PointerArrayShape ==
  pc = "in_os" =>
    /\ os_argv \in Live(heap)
    /\ LET arr == heap[os_argv].data IN
         /\ Len(arr) = Len(args) + 1
         /\ arr[Len(args) + 1] = NULL
         /\ \A k \in 1..Len(args) :
              /\ arr[k] # NULL
              /\ arr[k] \in DOMAIN heap
              /\ heap[arr[k]].data = NativeUnits(platform, args[k]) \o <<0>>
         /\ Len(args) = 0 => arr = <<NULL>>

\* The primitive is running on two different, non-empty arguments.
C4_Witness ==
  /\ pc = "in_os"
  /\ Len(args) = 2
  /\ args[1] # <<>>
  /\ args[2] # <<>>
  /\ args[1] # args[2]

\* Everything the primitive was handed is still allocated.
BuffersLive ==
  /\ os_file \in Live(heap)
  /\ os_argv \in Live(heap)
  /\ \A i \in 1..Len(heap[os_argv].data) :
       heap[os_argv].data[i] # NULL => heap[os_argv].data[i] \in Live(heap)

\* C5: whatever mix of arg and args calls delivered the values a1..an
\* after Command::new(p), the builder holds [p, a1, ..., an] in call order
\* (so the chain of arg calls and the single args call hold the same list).
C5_ArgAndArgsBuildSameList ==
  cmd.live => cmd.argv = <<new_program>> \o appended

\* A builder that received two different values after its program name.
C5_Witness ==
  /\ cmd.live
  /\ Len(appended) = 2
  /\ appended[1] # appended[2]
  /\ new_program # appended[1]
  /\ cmd.argv = <<new_program, appended[1], appended[2]>>

\* C6: a call made by Command::exec runs the pipeline with program = p,
\* the first entry of the list (always present), and with the whole list,
\* p included at position 0, as arguments; what comes back is what the
\* pipeline yields for that input: NullByteInArgument if a list entry
\* holds a zero, Errno with the primitive's code otherwise.
C6_ExecForwardsWholeList ==
  (InCall /\ via = "Command") =>
    /\ cmd.live
    /\ Len(cmd.argv) >= 1
    /\ program = new_program
    /\ program = cmd.argv[1]
    /\ args = cmd.argv
    /\ args = <<new_program>> \o appended
    /\ pc = "returned" =>
         result = IF \E i \in 1..Len(cmd.argv) : StringHasNul(cmd.argv[i])
                  THEN NullByteInArgument
                  ELSE ErrnoError(left_errno)

\* exec on a builder with two appended values came back with an OS error.
C6_Witness ==
  /\ via = "Command"
  /\ pc = "returned"
  /\ Len(appended) = 2
  /\ result.kind = "Errno"
  /\ Len(args) = 3

\* C7 as stated: a builder's list is handed to the exec pipeline at most
\* one time.
C7_HandedAtMostOnce == handed # "again"

\* C7 as amended: the list only grows at its end, and only in steps taken
\* outside a call of the pipeline (new, arg, args); a step of exec hands
\* the whole list to the pipeline and leaves the builder and its list as
\* they were, so that exec can be called on it again.
C7_AppendOnlyExecBorrows ==
  [][/\ (cmd.live /\ cmd'.live) =>
         /\ IsPrefix(cmd.argv, cmd'.argv)
         /\ cmd'.argv # cmd.argv => (pc = "idle" /\ pc' = "idle")
     /\ handed' # handed =>
         \/ ~cmd.live \/ ~cmd'.live
         \/ /\ cmd' = cmd
            /\ args' = cmd.argv
            /\ pc' = "program"]_vars

\* The same builder's list is in the pipeline for the second time.
C7_Witness ==
  /\ handed = "again"
  /\ pc = "program"
  /\ via = "Command"
  /\ Len(cmd.argv) = 3
  /\ args = cmd.argv

\* C8: when the primitive has returned, errno still holds what it left;
\* an Error::Errno carries exactly that code, whatever errno has become
\* since; and at the moment the Error exists and the scope has not been
\* left yet, nothing has been released.
C8_ErrnoReadBeforeRelease ==
  /\ pc = "os_returned" => os_errno = left_errno
  /\ result.kind = "Errno" => result.code = left_errno
  /\ (pc = "drop" /\ result.kind = "Errno") => BuffersLive

\* The release overwrote errno after it was read: the Error returned
\* still carries the primitive's code.
C8_Witness ==
  /\ pc = "returned"
  /\ result.kind = "Errno"
  /\ os_errno # left_errno
  /\ result.code = left_errno

\* C9: from the invocation of the primitive until its return, the encoded
\* program name, every encoded argument and the pointer array are
\* allocated, and the primitive holds exactly their addresses.
C9_BuffersOutliveOsCall ==
  pc \in {"in_os", "os_returned"} =>
    /\ BuffersLive
    /\ os_file = program_cstring
    /\ os_argv = arg_charptrs
    /\ Len(arg_cstrings) = Len(args)
    /\ \A i \in 1..Len(arg_cstrings) :
         /\ arg_cstrings[i] \in Live(heap)
         /\ heap[os_argv].data[i] = arg_cstrings[i]

\* The primitive is running with four live blocks: the program name, two
\* arguments and the pointer array.
C9_Witness ==
  /\ pc = "in_os"
  /\ Len(args) = 2
  /\ Cardinality(Live(heap)) = 4

\* C10: when the primitive returns a result that is not negative the call
\* panics and yields no Error; an Error::Errno exists only after a
\* negative result, and a negative result never panics.
C10_NonFailurePanics ==
  /\ pc \in {"unwind", "panicked"} => (res >= 0 /\ result = NoError)
  /\ result.kind = "Errno" => res < 0
  /\ (os_calls = 1 /\ pc \in {"drop", "returned"}) =>
       (res < 0 /\ result.kind = "Errno")

\* The primitive came back with a positive value and the call panicked.
C10_Witness ==
  /\ pc = "panicked"
  /\ res > 0
  /\ os_calls = 1
====
